---- MODULE Spec2Model ----
(***************************************************************************)
(* Model of the agricultural chat agent of src/llm.py                      *)
(* (MkulimaLLMService): the LangGraph workflow                             *)
(*   analyze_query -> fetch_context -> generate_response                   *)
(*                 -> save_conversation -> END                             *)
(* run by chat(), the persistence of a turn in the chat_sessions and       *)
(* chat_messages tables of src/models.py, and get_chat_history().          *)
(*                                                                         *)
(* Text values are TLA+ strings; a text whose characters matter (a         *)
(* category, matched with SQL LIKE) is a sequence of tokens.  A JSON       *)
(* scalar is written as its JSON token ("true", "false", "0.5"); a key    *)
(* that a dict does not have holds the token Absent.                       *)
(***************************************************************************)
EXTENDS Integers, Sequences, FiniteSets, TLC

\* ------------------------------------------------------------------ bounds
\* chat() invocations started in one behaviour
MaxTurns == 2

\* ------------------------------------------------------- program constants
\* _generate_session_title: first_user_message[:50]
TitleMax == 50
\* fetch_context_data: .limit(3)
KbLimit == 3
\* fetch_context_data: article.content[:500]
KbContentMax == 500

Absent == "<absent>"
AbsentCategory == <<Absent>>
Apology == "I apologize, but I encountered an error processing your request. Please try again."

Min(a, b) == IF a < b THEN a ELSE b

\* Python truthiness of a JSON token, as tested by `if x` / `x and y`.
Truthy(tok) == tok \notin {Absent, "false", "null", "0", "''"}

\* ------------------------------------------------------------ JSON values
\* The value json.loads returns, or what analyze_query builds itself.
\* kind: "dict" for a JSON object, "list" for any JSON value that is not an
\* object (it has no .get).
JsonDict(cat, conf, rfd, subj) ==
    [kind |-> "dict", category |-> cat, confidence |-> conf,
     requires_farm_data |-> rfd, specific_crop_livestock |-> subj]

JsonNonDict == [kind |-> "list", category |-> AbsentCategory, confidence |-> Absent,
                requires_farm_data |-> Absent, specific_crop_livestock |-> Absent]

NoAnalysis == [kind |-> "unset", category |-> AbsentCategory, confidence |-> Absent,
               requires_farm_data |-> Absent, specific_crop_livestock |-> Absent]

\* analyze_query's except branch.
DefaultAnalysis == JsonDict(<<"general", "_", "farming">>, "0.5", "false", Absent)

\* The texts the classification call is made to answer with.
ClassifierTexts ==
    {"I think this is about crops",
     "[]",
     "{}",
     "{category: crop_management, confidence: 0.8, requires_farm_data: true, specific_crop_livestock: maize}",
     "{category: livestock_care, confidence: 0.9, requires_farm_data: false}",
     "{category: weather_advice, requires_farm_data: 'false'}"}

\* json.loads on those texts: ok = FALSE for a JSONDecodeError.
JsonLoads(text) ==
    CASE text = "[]" -> [ok |-> TRUE, value |-> JsonNonDict]
      [] text = "{}" -> [ok |-> TRUE, value |-> JsonDict(AbsentCategory, Absent, Absent, Absent)]
      [] text = "{category: crop_management, confidence: 0.8, requires_farm_data: true, specific_crop_livestock: maize}"
           -> [ok |-> TRUE, value |-> JsonDict(<<"crop", "_", "management">>, "0.8", "true", "maize")]
      [] text = "{category: livestock_care, confidence: 0.9, requires_farm_data: false}"
           -> [ok |-> TRUE, value |-> JsonDict(<<"livestock", "_", "care">>, "0.9", "false", Absent)]
      [] text = "{category: weather_advice, requires_farm_data: 'false'}"
           -> [ok |-> TRUE, value |-> JsonDict(<<"weather", "_", "advice">>, Absent, "'false'", Absent)]
      [] OTHER -> [ok |-> FALSE, value |-> NoAnalysis]

\* What self.llm.invoke can do in analyze_query's try block: raise (the
\* prompt formatting, the call itself), or answer with a text.
ClassifierOutcomes ==
    {[raises |-> TRUE, content |-> ""]} \cup
    {[raises |-> FALSE, content |-> t] : t \in ClassifierTexts}

\* ------------------------------------------------------- external tables
\* The farms and knowledge_base tables: the agent only reads them.  llm.py
\* imports Farm from models; the columns are those fetch_context_data reads.
FarmTable ==
    << [user_id |-> 1, name |-> "Shamba A", location |-> "Eldoret", size_acres |-> "2.5",
        farm_type |-> "mixed",
        crops |-> << [name |-> "maize", variety |-> "H614", status |-> "growing"] >>,
        livestock |-> << [animal_type |-> "cattle", breed |-> "Friesian", count |-> "3"] >>] >>

\* content is a text of `len` characters named by `body`.
KnowledgeBaseTable ==
    << [title |-> "Maize spacing", content |-> [body |-> "kb1", len |-> 600],
        category |-> <<"crop", "_", "management">>, is_active |-> TRUE],
       [title |-> "Top dressing", content |-> [body |-> "kb2", len |-> 500],
        category |-> <<"crop", " ", "management">>, is_active |-> TRUE],
       [title |-> "Old advice", content |-> [body |-> "kb3", len |-> 40],
        category |-> <<"crop", "_", "management">>, is_active |-> FALSE],
       [title |-> "Crop rotation", content |-> [body |-> "kb4", len |-> 501],
        category |-> <<"soil", ",", "crop", "_", "management">>, is_active |-> TRUE],
       [title |-> "Weeding", content |-> [body |-> "kb5", len |-> 120],
        category |-> <<"crop", "_", "management">>, is_active |-> TRUE],
       [title |-> "Record keeping", content |-> [body |-> "kb6", len |-> 80],
        category |-> <<"general", "_", "farming">>, is_active |-> TRUE] >>

\* Tokens that stand for one character.
OneChar == {"_", " ", ",", "-"}

\* SQL LIKE '%<pat>%': pat occurs in text at some offset, a "_" of the
\* pattern matching any one character.
Like(pat, text) ==
    \E off \in 0..(Len(text) - Len(pat)) :
        \A i \in 1..Len(pat) :
            \/ pat[i] = text[off + i]
            \/ pat[i] = "_" /\ text[off + i] \in OneChar

\* analysis.get("category", "general_farming"), as put in f"%{category}%".
LikePattern(category) == IF category = AbsentCategory THEN <<"general", "_", "farming">> ELSE category

\* Farm.query.filter_by(user_id=user_id).all()
FarmsOf(user_id) == SelectSeq(FarmTable, LAMBDA f : f.user_id = user_id)

FarmSnapshot(farm) ==
    [name |-> farm.name, location |-> farm.location, size_acres |-> farm.size_acres,
     farm_type |-> farm.farm_type, crops |-> farm.crops, livestock |-> farm.livestock]

\* The rows KnowledgeBase.query.filter(category LIKE ..., is_active).
KbMatches(category) ==
    {i \in 1..Len(KnowledgeBaseTable) :
        /\ Like(LikePattern(category), KnowledgeBaseTable[i].category)
        /\ KnowledgeBaseTable[i].is_active}

\* .limit(3).all() has no ORDER BY: which rows come back is the engine's
\* choice, every set of min(3, n) matching rows is possible.
KbPicks(category) ==
    {S \in SUBSET KbMatches(category) :
        Cardinality(S) = Min(KbLimit, Cardinality(KbMatches(category)))}

RECURSIVE SeqOfSet(_)
SeqOfSet(S) ==
    IF S = {} THEN << >>
    ELSE LET m == CHOOSE x \in S : \A y \in S : x <= y
         IN  <<m>> \o SeqOfSet(S \ {m})

\* article.content[:500] + "..." if len(article.content) > 500 else article.content
KbContent(content) ==
    IF content.len > KbContentMax
    THEN [body |-> content.body, len |-> KbContentMax + 3, ellipsis |-> TRUE]
    ELSE [body |-> content.body, len |-> content.len, ellipsis |-> FALSE]

KbEntry(article) ==
    [title |-> article.title, content |-> KbContent(article.content), category |-> article.category]

\* ------------------------------------------------------------ agent state
\* The messages chat() is called with, and their lengths in characters.
UserMessages == {"How do I plant maize?", "My maize leaves are turning yellow and the cobs stay small, what is wrong?"}

TextLen(text) ==
    CASE text = "How do I plant maize?" -> 21
      [] text = "My maize leaves are turning yellow and the cobs stay small, what is wrong?" -> 74
      [] OTHER -> 0

HumanMessage(content) == [type |-> "human", content |-> content, tool_calls |-> "<none>"]
AIMessage(content, tool_calls) == [type |-> "ai", content |-> content, tool_calls |-> tool_calls]

\* What self.llm.invoke can do in generate_response: raise, or return an
\* AIMessage: a text answer, or a request for a tool by name.
GenOutcomes ==
    {[raises |-> TRUE, content |-> "", tool_calls |-> "<none>"],
     [raises |-> FALSE, content |-> "Plant at the onset of the long rains.", tool_calls |-> "<none>"],
     [raises |-> FALSE, content |-> "", tool_calls |-> "get_weather"],
     [raises |-> FALSE, content |-> "", tool_calls |-> "get_soil_map"]}

NoData == [set |-> FALSE, has_farms |-> FALSE, farms |-> << >>, knowledge_base |-> << >>]
EmptyContext == [query_analysis |-> NoAnalysis, data |-> NoData]

\* Python values an attribute named metadata can hold: None, a str (the
\* JSON text of a context bag), or the MetaData registry that every
\* db.Model class carries as its class attribute `metadata`.
PyNone == [pytype |-> "NoneType", text |-> EmptyContext]
PyStr(context) == [pytype |-> "str", text |-> context]
SaMetaData == [pytype |-> "MetaData", text |-> EmptyContext]

\* json.dumps(state["context"]): the JSON text of the bag.
JsonDumps(context) == PyStr(context)

\* json.loads(x): the bag a JSON text holds; a TypeError for anything that
\* is not a str.
JsonLoadsBag(x) ==
    IF x.pytype = "str" THEN [ok |-> TRUE, value |-> x.text]
    ELSE [ok |-> FALSE, value |-> EmptyContext]

\* `if x`: None is false, an object without __bool__/__len__ is true.
PyTruthy(x) == x.pytype # "NoneType"

NoResult == [set |-> FALSE, success |-> FALSE, response |-> "", session_id |-> "",
             context |-> EmptyContext, error |-> ""]
EmptyTx == [chat_session |-> << >>, chat_messages |-> << >>]

\* A chat() frame that is not running.
IdleTurn ==
    [pc |-> "idle", tid |-> 0, messages |-> << >>, user_id |-> 0, session_id |-> "",
     context |-> EmptyContext, farm_data |-> "None", exc |-> "", path |-> << >>,
     chat_session |-> 0, tx |-> EmptyTx, result |-> NoResult, gen |-> "none",
     saved |-> "no", save_error |-> ""]

\* chat(): initial_state = AgentState(...); tid numbers the invocation.
InitialState(tid, message, user_id, session_id) ==
    [IdleTurn EXCEPT !.pc = "analyze_query", !.tid = tid,
                     !.messages = <<HumanMessage(message)>>,
                     !.user_id = user_id, !.session_id = session_id]

\* A node raised: graph.invoke re-raises it into chat().
Raise(state, error) == [state EXCEPT !.exc = error]

\* ------------------------------------------------------------------ nodes
\* analyze_query(state), the classification call doing `out`.
analyze_query(state, out) ==
    LET parsed == JsonLoads(out.content)
        analysis == IF out.raises \/ ~parsed.ok THEN DefaultAnalysis ELSE parsed.value
        ran == [state EXCEPT !.path = Append(@, "analyze_query"), !.pc = "fetch_context"]
    IN  IF state.messages = << >>
        THEN ran
        ELSE [ran EXCEPT !.context.query_analysis = analysis]

\* Mutant of want_farms: the classifier's flag is not consulted.
want_farms_any(user_id, analysis) == user_id # 0

\* fetch_context_data, line 90: `if user_id and analysis.get("requires_farm_data")`
want_farms(user_id, analysis) == user_id # 0 /\ Truthy(analysis.requires_farm_data)

\* fetch_context_data(state): db_ok = FALSE when a query raises; pick is the
\* set of knowledge_base rows the engine returns.
fetch_context_data(state, db_ok, pick) ==
    LET stored == state.context.query_analysis
        \* state["context"].get("query_analysis", {})
        analysis == IF stored.kind = "unset"
                    THEN JsonDict(AbsentCategory, Absent, Absent, Absent)
                    ELSE stored
        user_id == state.user_id
        with_farms == want_farms(user_id, analysis)
        farms == IF with_farms THEN FarmsOf(user_id) ELSE << >>
        rows == SeqOfSet(pick)
        context_data ==
            [set |-> TRUE,
             has_farms |-> with_farms,
             farms |-> [i \in 1..Len(farms) |-> FarmSnapshot(farms[i])],
             knowledge_base |-> [i \in 1..Len(rows) |-> KbEntry(KnowledgeBaseTable[rows[i]])]]
        ran == [state EXCEPT !.path = Append(@, "fetch_context")]
    IN  IF analysis.kind # "dict"
        THEN Raise(ran, "'list' object has no attribute 'get'")
        ELSE IF ~db_ok
        THEN Raise(ran, "OperationalError")
        ELSE [ran EXCEPT !.context.data = context_data, !.pc = "generate_response"]

\* Mutant of add_messages: the response replaces the sequence.
add_messages_replace(left, right) == right

\* add_messages(left, right): right appended to left.
add_messages(left, right) == left \o right

\* Mutant of generate_response: a requested get_weather tool is run, its
\* result appended, and the model invoked a second time.
generate_response_with_tools(state, out) ==
    LET ran == [state EXCEPT !.path = Append(@, "generate_response")]
        first == AIMessage(out.content, out.tool_calls)
    IN  IF out.raises
        THEN Raise([ran EXCEPT !.gen = "failed"], "APIConnectionError")
        ELSE [ran EXCEPT !.messages =
                            IF out.tool_calls = "get_weather"
                            THEN state.messages \o
                                 <<first,
                                   [type |-> "tool", content |-> "Eldoret: 21C, light rain",
                                    tool_calls |-> "<none>"],
                                   AIMessage("Plant after the rain.", "<none>")>>
                            ELSE state.messages \o <<first>>,
                         !.gen = "ok",
                         !.pc = "save_conversation"]

\* Mutant of generate_response: a failed model call is swallowed and the
\* graph goes on to save_conversation.
generate_response_swallow(state, out) ==
    LET ran == [state EXCEPT !.path = Append(@, "generate_response")]
    IN  IF out.raises
        THEN [ran EXCEPT !.gen = "failed", !.pc = "save_conversation"]
        ELSE [ran EXCEPT !.messages = add_messages(state.messages,
                                          <<AIMessage(out.content, out.tool_calls)>>),
                         !.gen = "ok",
                         !.pc = "save_conversation"]

\* generate_response(state), the model call doing `out`.  The system prompt
\* and the window messages[-5:] are arguments of the call; they are not kept.
generate_response(state, out) ==
    LET ran == [state EXCEPT !.path = Append(@, "generate_response")]
    IN  IF out.raises
        THEN Raise([ran EXCEPT !.gen = "failed"], "APIConnectionError")
        ELSE [ran EXCEPT !.messages = add_messages(state.messages,
                                          <<AIMessage(out.content, out.tool_calls)>>),
                         !.gen = "ok",
                         !.pc = "save_conversation"]

\* ------------------------------------------------------------ persistence
VARIABLES
    turn,            \* turn[p]: the frame of the chat() invocation worker p runs
    chat_sessions,   \* committed rows of table chat_sessions, in insertion order
    chat_messages,   \* committed rows of table chat_messages, in insertion order
    session_seq,     \* the id sequence of chat_sessions
    clock,           \* datetime.utcnow()
    nturns,          \* chat() invocations started
    history          \* what the last get_chat_history() returned, until the next chat()

vars == <<turn, chat_sessions, chat_messages, session_seq, clock, nturns, history>>

Workers == {1, 2}

\* _generate_session_title(messages)
generate_session_title(messages) ==
    LET humans == SelectSeq(messages, LAMBDA m : m.type = "human")
    IN  IF messages = << >> \/ humans = << >> \/ humans[1].content = ""
        THEN [text |-> "New Chat Session", len |-> 16, ellipsis |-> FALSE]
        ELSE [text |-> humans[1].content,
              len |-> Min(TextLen(humans[1].content), TitleMax)
                      + (IF TextLen(humans[1].content) > TitleMax THEN 3 ELSE 0),
              ellipsis |-> TextLen(humans[1].content) > TitleMax]

\* ChatSession.query.filter_by(session_id=session_id).first(): the committed
\* rows with that session_id (at most one: the column is unique).
SessionsWith(session_id) == SelectSeq(chat_sessions, LAMBDA r : r.session_id = session_id)

\* ChatMessage(session_id=..., message_type=..., content=..., metadata=...):
\* the declarative constructor setattr()s each keyword.  The mapped column
\* is chat_metadata; `metadata` is no column, the keyword lands in a plain
\* instance attribute and the column keeps its default, NULL.
ChatMessage(session_id, message_type, content, metadata) ==
    [session_id |-> session_id, message_type |-> message_type, content |-> content,
     chat_metadata |-> PyNone, metadata |-> metadata]

\* The row an INSERT of a ChatMessage object writes: its mapped columns.
\* turn is a history field: the chat() invocation that wrote the row.
MessageRow(obj, id, timestamp, tid) ==
    [id |-> id, session_id |-> obj.session_id, message_type |-> obj.message_type,
     content |-> obj.content, chat_metadata |-> obj.chat_metadata,
     timestamp |-> timestamp, turn |-> tid]

\* Mutant of save_except: the exception is rolled back and raised again.
save_reraise(state, error) ==
    [state EXCEPT !.tx = EmptyTx, !.saved = "failed", !.save_error = error, !.exc = error]

\* save_conversation's except clause: db.session.rollback(); the node then
\* returns state and the graph goes to END.
save_except(state, error) ==
    [state EXCEPT !.tx = EmptyTx, !.saved = "failed", !.save_error = error, !.pc = "END"]

\* save_conversation, lines 150-156: the guard and the session lookup.
save_lookup(state, fault) ==
    LET ran == [state EXCEPT !.path = Append(@, "save_conversation")]
        found == SessionsWith(state.session_id)
    IN  IF ~(state.session_id # "" /\ state.user_id # 0)
        THEN [ran EXCEPT !.saved = "skipped", !.pc = "END"]
        ELSE IF fault THEN save_except(ran, "OperationalError in the session lookup")
        ELSE IF found # << >>
        THEN [ran EXCEPT !.chat_session = found[1].id, !.pc = "save_commit"]
        ELSE [ran EXCEPT !.pc = "save_flush"]

\* save_conversation, lines 157-163: the new session, added and flushed.
\* The INSERT fails on the unique session_id when a row with it was
\* committed since the lookup.
save_flush(state, fault) ==
    LET row == [id |-> session_seq + 1, session_id |-> state.session_id,
                title |-> generate_session_title(state.messages),
                user_id |-> state.user_id, turn |-> state.tid]
    IN  IF fault
        THEN save_except(state, "OperationalError in the session INSERT")
        ELSE IF SessionsWith(state.session_id) # << >>
        THEN save_except(state, "IntegrityError: duplicate session_id")
        ELSE [state EXCEPT !.tx.chat_session = <<row>>, !.chat_session = row.id,
                           !.pc = "save_commit"]

\* messages[-2:]
Recent(messages) == SubSeq(messages, Len(messages) - Min(2, Len(messages)) + 1, Len(messages))

\* save_conversation, lines 165-175: one ChatMessage per recent message.
recent_chat_messages(state) ==
    LET recent == Recent(state.messages)
    IN  [i \in 1..Len(recent) |->
            LET message_type == IF recent[i].type = "human" THEN "user" ELSE "assistant"
            IN  ChatMessage(state.chat_session, message_type, recent[i].content,
                            IF message_type = "assistant"
                            THEN JsonDumps(state.context) ELSE PyNone)]

\* save_conversation, lines 165-177: the messages added, then the commit.
save_commit(state, fault) ==
    IF fault THEN save_except(state, "error in json.dumps, add or commit")
    ELSE [state EXCEPT !.tx.chat_messages = recent_chat_messages(state),
                       !.saved = "committed", !.pc = "END"]

\* chat(), lines 267-282: the result of a run that reached END, or the
\* fallback of one that raised.
chat_return(state) ==
    IF state.exc # ""
    THEN [state EXCEPT !.pc = "returned",
                       !.result = [set |-> TRUE, success |-> FALSE, response |-> Apology,
                                   session_id |-> "", context |-> EmptyContext,
                                   error |-> state.exc]]
    ELSE IF state.pc = "END"
    THEN [state EXCEPT !.pc = "returned",
                       !.result = [set |-> TRUE, success |-> TRUE,
                                   response |-> state.messages[Len(state.messages)].content,
                                   session_id |-> state.session_id,
                                   context |-> state.context, error |-> ""]]
    ELSE state

\* Mutant of flush_visible: the session is committed where it is flushed.
flush_commits(rows) == rows

\* db.session.flush() of the new session: the INSERT runs inside the open
\* transaction, so other transactions see none of the flushed rows.
flush_visible(rows) == << >>

\* ---------------------------------------------------------------- history
\* A ChatMessage loaded from a row: its columns, and `metadata`, which no
\* column sets: the attribute read falls through to the class attribute.
LoadMessage(row) ==
    [message_type |-> row.message_type, content |-> row.content,
     timestamp |-> row.timestamp, chat_metadata |-> row.chat_metadata,
     metadata |-> SaMetaData]

\* ChatMessage.query.filter_by(session_id=id): the rows of one session.
MessagesOf(id) == SelectSeq(chat_messages, LAMBDA r : r.session_id = id)

\* .order_by(ChatMessage.timestamp.asc()): every order of the rows that is
\* ascending in timestamp (rows of equal timestamp come in any order).
RECURSIVE AscOrders(_)
AscOrders(rows) ==
    IF rows = {} THEN {<< >>}
    ELSE UNION {{<<r>> \o rest : rest \in AscOrders(rows \ {r})} :
                r \in {x \in rows : \A y \in rows : x.timestamp <= y.timestamp}}

SeqRange(seq) == {seq[i] : i \in 1..Len(seq)}

\* get_chat_history's comprehension over the loaded messages.
history_entry(msg) ==
    LET loaded == JsonLoadsBag(msg.metadata)
    IN  [type |-> msg.message_type, content |-> msg.content,
         timestamp |-> [iso |-> msg.timestamp],
         metadata |-> IF PyTruthy(msg.metadata)
                      THEN [none |-> FALSE, bag |-> loaded.value]
                      ELSE [none |-> TRUE, bag |-> EmptyContext],
         raised |-> PyTruthy(msg.metadata) /\ ~loaded.ok]

\* get_chat_history(session_id): `fault` when a query raises, `ordered` the
\* session's rows as the ORDER BY returned them.
get_chat_history(session_id, fault, ordered) ==
    LET entries == [i \in 1..Len(ordered) |-> history_entry(LoadMessage(ordered[i]))]
    IN  IF fault \/ SessionsWith(session_id) = << >> THEN << >>
        ELSE IF \E i \in 1..Len(entries) : entries[i].raised THEN << >>
        ELSE entries

NoHistory == [called |-> FALSE, session_id |-> "", fault |-> FALSE, entries |-> << >>]

\* --------------------------------------------------------------- actions
Init ==
    /\ turn = [p \in Workers |-> IdleTurn]
    /\ chat_sessions = << >>
    /\ chat_messages = << >>
    /\ session_seq = 0
    /\ clock = 0
    /\ nturns = 0
    /\ history = NoHistory

\* chat(message, user_id, session_id) is called on worker p.
Chat(p, msgs, uids, sids) ==
    /\ turn[p].pc \in {"idle", "returned"}
    /\ nturns < MaxTurns
    /\ \E message \in msgs, user_id \in uids, session_id \in sids :
          turn' = [turn EXCEPT ![p] = InitialState(nturns + 1, message, user_id, session_id)]
    /\ nturns' = nturns + 1
    /\ clock' = clock + 1
    /\ history' = NoHistory
    /\ UNCHANGED <<chat_sessions, chat_messages, session_seq>>

AnalyzeQuery(p, outs) ==
    /\ turn[p].pc = "analyze_query"
    /\ \E out \in outs :
          turn' = [turn EXCEPT ![p] = chat_return(analyze_query(turn[p], out))]
    /\ UNCHANGED <<chat_sessions, chat_messages, session_seq, clock, nturns, history>>

FetchContext(p, dbs) ==
    /\ turn[p].pc = "fetch_context"
    /\ \E db_ok \in dbs, pick \in KbPicks(turn[p].context.query_analysis.category) :
          turn' = [turn EXCEPT ![p] = chat_return(fetch_context_data(turn[p], db_ok, pick))]
    /\ UNCHANGED <<chat_sessions, chat_messages, session_seq, clock, nturns, history>>

GenerateResponse(p, outs) ==
    /\ turn[p].pc = "generate_response"
    /\ \E out \in outs :
          turn' = [turn EXCEPT ![p] = chat_return(generate_response(turn[p], out))]
    /\ UNCHANGED <<chat_sessions, chat_messages, session_seq, clock, nturns, history>>

SaveLookup(p, faults) ==
    /\ turn[p].pc = "save_conversation"
    /\ \E fault \in faults :
          turn' = [turn EXCEPT ![p] = chat_return(save_lookup(turn[p], fault))]
    /\ UNCHANGED <<chat_sessions, chat_messages, session_seq, clock, nturns, history>>

\* The INSERT waits while another open transaction holds an uncommitted row
\* with the same unique session_id.
SaveFlush(p, faults) ==
    /\ turn[p].pc = "save_flush"
    /\ \A q \in Workers \ {p} :
          \A i \in 1..Len(turn[q].tx.chat_session) :
              turn[q].tx.chat_session[i].session_id # turn[p].session_id
    /\ \E fault \in faults :
          LET after == save_flush(turn[p], fault)
          IN  /\ turn' = [turn EXCEPT ![p] = chat_return(after)]
              /\ chat_sessions' = chat_sessions \o flush_visible(after.tx.chat_session)
    /\ session_seq' = session_seq + 1
    /\ UNCHANGED <<chat_messages, clock, nturns, history>>

\* The commit writes the transaction's rows at once; the two message rows
\* take their timestamp default one after the other (d: the clock moved
\* between them or not).
SaveCommit(p, faults) ==
    /\ turn[p].pc = "save_commit"
    /\ \E fault \in faults, d \in {0, 1} :
          LET after == save_commit(turn[p], fault)
              objs == after.tx.chat_messages
              rows == [i \in 1..Len(objs) |->
                          MessageRow(objs[i], Len(chat_messages) + i,
                                     clock + (i - 1) * d, after.tid)]
          IN  /\ turn' = [turn EXCEPT ![p] = chat_return([after EXCEPT !.tx = EmptyTx])]
              /\ chat_sessions' = chat_sessions \o after.tx.chat_session
              /\ chat_messages' = chat_messages \o rows
              /\ clock' = IF objs = << >> THEN clock ELSE clock + d
    /\ UNCHANGED <<session_seq, nturns, history>>

GetChatHistory(sids, faults) ==
    /\ \A p \in Workers : turn[p].pc \in {"idle", "returned"}
    /\ \E session_id \in sids, fault \in faults :
          LET found == SessionsWith(session_id)
              rows == IF found = << >> THEN {} ELSE SeqRange(MessagesOf(found[1].id))
          IN  \E ordered \in AscOrders(rows) :
                 history' = [called |-> TRUE, session_id |-> session_id, fault |-> fault,
                             entries |-> get_chat_history(session_id, fault, ordered)]
    /\ UNCHANGED <<turn, chat_sessions, chat_messages, session_seq, clock, nturns>>

\* --------------------------------------------------------- specifications
UserIds == {0, 1, 2}
SessionIds == {"", "s1"}

\* One chat() at a time, every outcome of every call.
Next ==
    \/ Chat(1, UserMessages, UserIds, SessionIds)
    \/ AnalyzeQuery(1, ClassifierOutcomes)
    \/ FetchContext(1, BOOLEAN)
    \/ GenerateResponse(1, GenOutcomes)
    \/ SaveLookup(1, BOOLEAN)
    \/ SaveFlush(1, BOOLEAN)
    \/ SaveCommit(1, BOOLEAN)
    \/ GetChatHistory(SessionIds \ {""}, BOOLEAN)

Spec == Init /\ [][Next]_vars

\* Two workers run chat() concurrently (independent workflow invocations on
\* one database); the calls answer, no database fault is injected.
ConcMessages == {"How do I plant maize?"}
ConcUserIds == {1, 2}
ConcSessionIds == {"s1"}
ConcClassifier == {[raises |-> TRUE, content |-> ""]}
ConcGen == {o \in GenOutcomes : o.tool_calls = "<none>"}

NextConc ==
    \E p \in Workers :
        \/ Chat(p, ConcMessages, ConcUserIds, ConcSessionIds)
        \/ AnalyzeQuery(p, ConcClassifier)
        \/ FetchContext(p, {TRUE})
        \/ GenerateResponse(p, ConcGen)
        \/ SaveLookup(p, {FALSE})
        \/ SaveFlush(p, {FALSE})
        \/ SaveCommit(p, {FALSE})
        \/ GetChatHistory(ConcSessionIds, {FALSE})

SpecConc == Init /\ [][NextConc]_vars

\* ----------------------------------------------------------------- claims
Nodes == <<"analyze_query", "fetch_context", "generate_response", "save_conversation">>
SavePcs == {"save_conversation", "save_flush", "save_commit"}
LastOf(seq) == seq[Len(seq)]

\* The step of save_conversation that worker p is at can be taken.
SaveStepEnabled(p) ==
    \/ ENABLED SaveLookup(p, {FALSE})
    \/ ENABLED SaveFlush(p, {FALSE})
    \/ ENABLED SaveCommit(p, {FALSE})

\* C1: in every turn whose response-generation call succeeded, whatever the
\* classification, the fetched context and the persistence did, the message
\* sequence is the triggering user message followed by exactly one assistant
\* message; the workflow is never stuck before its end, and at its end the
\* four nodes have run in order and chat returns success with that
\* assistant message's content.
C1_TurnEndsWithOneAssistantMessage ==
    \A p \in Workers :
        turn[p].gen = "ok" =>
            /\ turn[p].pc \in SavePcs \cup {"returned"}
            /\ Len(turn[p].messages) = 2
            /\ turn[p].messages[1].type = "human"
            /\ turn[p].messages[2].type = "ai"
            /\ turn[p].pc \in SavePcs => SaveStepEnabled(p)
            /\ turn[p].pc = "returned" =>
                  /\ turn[p].path = Nodes
                  /\ turn[p].result.success
                  /\ turn[p].result.response = turn[p].messages[2].content

\* C1 witness: a finished turn whose classification was not the default,
\* whose context holds farms, and whose persistence failed.
C1_Witness ==
    /\ turn[1].pc = "returned"
    /\ turn[1].gen = "ok"
    /\ turn[1].context.query_analysis # DefaultAnalysis
    /\ turn[1].context.data.has_farms
    /\ turn[1].saved = "failed"
    /\ turn[1].result.response = "Plant at the onset of the long rains."

\* C2 (the claim as stated): a failed response-generation call makes chat
\* return the apology with success false, and no turn ends without a
\* model-authored answer for any other reason.
C2_OnlyGenerationFailureAborts ==
    \A p \in Workers :
        turn[p].pc = "returned" =>
            /\ turn[p].gen = "failed" =>
                  /\ ~turn[p].result.success
                  /\ turn[p].result.response = Apology
            /\ ~turn[p].result.success => turn[p].gen = "failed"

\* A value with the shape of a classification record.
IsClassification(v) ==
    /\ v.kind = "dict"
    /\ v.category # AbsentCategory
    /\ v.confidence # Absent
    /\ v.requires_farm_data \in {"true", "false"}

\* C3 (the claim as stated): once analyze_query has run, the classification
\* in the context bag is a classification record, the default one whenever
\* the model's output was not one, and the turn is never aborted by what the
\* classification step stored.
C3_ClassificationFailureDefaults ==
    \A p \in Workers :
        turn[p].path # << >> =>
            /\ IsClassification(turn[p].context.query_analysis)
            /\ turn[p].exc # "'list' object has no attribute 'get'"

\* C4: when a step of save_conversation fails, the turn still ends, and chat
\* returns success with the generated response.
C4_PersistenceFailureIsSwallowed ==
    \A p \in Workers :
        turn[p].saved = "failed" =>
            /\ turn[p].pc = "returned"
            /\ turn[p].exc = ""
            /\ turn[p].path = Nodes
            /\ turn[p].result.success
            /\ LastOf(turn[p].messages).type = "ai"
            /\ turn[p].result.response = LastOf(turn[p].messages).content
            /\ turn[p].result.context = turn[p].context

\* C4 witness: the commit of a turn that had flushed a new session failed.
C4_Witness ==
    /\ turn[1].saved = "failed"
    /\ turn[1].save_error = "error in json.dumps, add or commit"
    /\ turn[1].chat_session = session_seq
    /\ SessionsWith(turn[1].session_id) = << >>
    /\ turn[1].result.success

\* The committed rows a chat() invocation wrote.
MessagesBy(tid) == SelectSeq(chat_messages, LAMBDA r : r.turn = tid)
SessionsBy(tid) == SelectSeq(chat_sessions, LAMBDA r : r.turn = tid)
OfType(rows, message_type) == SelectSeq(rows, LAMBDA r : r.message_type = message_type)

\* C5 (the claim as stated): a turn whose persistence went through has
\* appended exactly two records to its session, the user record with the
\* triggering message first, then the assistant record with the new
\* assistant message; the assistant record alone stores the serialized
\* context bag as its metadata; the session with the turn's identifier
\* exists.
C5_TwoRecordsWithMetadata ==
    \A p \in Workers :
        (turn[p].pc = "returned" /\ turn[p].saved = "committed") =>
            LET mine == MessagesBy(turn[p].tid)
                session == SessionsWith(turn[p].session_id)
            IN  /\ Len(session) = 1
                /\ Len(mine) = 2
                /\ mine[1].message_type = "user"
                /\ mine[1].content = turn[p].messages[1].content
                /\ mine[1].chat_metadata = PyNone
                /\ mine[2].message_type = "assistant"
                /\ mine[2].content = turn[p].messages[2].content
                /\ mine[2].chat_metadata = JsonDumps(turn[p].context)
                /\ \A i \in 1..2 : mine[i].session_id = session[1].id

\* C6: persistence of a turn is all-or-nothing: of every chat() invocation
\* the store holds either one user record and one assistant record (and the
\* session, if the invocation created it), or no record and no session.
C6_AllOrNothing ==
    \A tid \in 1..nturns :
        LET mine == MessagesBy(tid)
        IN  \/ /\ Len(OfType(mine, "user")) = 1
               /\ Len(OfType(mine, "assistant")) = 1
               /\ Len(mine) = 2
            \/ /\ mine = << >>
               /\ SessionsBy(tid) = << >>

\* C6 witness: a turn flushed a new session, then its commit failed: the
\* store holds nothing of it.
C6_Witness ==
    /\ turn[1].pc = "returned"
    /\ turn[1].saved = "failed"
    /\ turn[1].save_error = "error in json.dumps, add or commit"
    /\ turn[1].chat_session = session_seq
    /\ SessionsBy(turn[1].tid) = << >>
    /\ MessagesBy(turn[1].tid) = << >>
    /\ chat_messages # << >>

\* C7 (the claim as stated): get_chat_history(S), when its queries do not
\* fail, returns one entry per persisted message of S, ascending in
\* timestamp, each with the role it was saved with, the assistant entries
\* with a metadata that is a context bag.
C7_HistoryRoundTrip ==
    (history.called /\ ~history.fault) =>
        LET session == SessionsWith(history.session_id)
            rows == IF session = << >> THEN << >> ELSE MessagesOf(session[1].id)
            entries == history.entries
        IN  /\ Len(entries) = Len(rows)
            /\ \A i \in 1..Len(entries) : \A j \in i..Len(entries) :
                  entries[i].timestamp.iso <= entries[j].timestamp.iso
            /\ \A role \in {"user", "assistant"} :
                  Len(SelectSeq(entries, LAMBDA e : e.type = role)) = Len(OfType(rows, role))
            /\ \A i \in 1..Len(entries) :
                  entries[i].type = "assistant" =>
                      /\ ~entries[i].metadata.none
                      /\ entries[i].metadata.bag.data.set

\* C8 (the claim as stated): with turns running concurrently and no fault
\* of the store, every turn that ended with an answer for a session has its
\* user record and its assistant record in the store.
C8_NoMessageLost ==
    \A p \in Workers :
        (turn[p].pc = "returned" /\ turn[p].gen = "ok"
            /\ turn[p].session_id # "" /\ turn[p].user_id # 0) =>
            /\ Len(OfType(MessagesBy(turn[p].tid), "user")) = 1
            /\ Len(OfType(MessagesBy(turn[p].tid), "assistant")) = 1

\* The tool the specification registers (section 4.4, the weather lookup).
RegisteredTools == {"get_weather"}
OfKind(messages, type) == SelectSeq(messages, LAMBDA m : m.type = type)

Contains(pat, text) ==
    \E off \in 0..(Len(text) - Len(pat)) :
        \A i \in 1..Len(pat) : pat[i] = text[off + i]

\* The knowledge_base rows an entry of the context bag can come from.
SourcesOf(entry) ==
    {i \in 1..Len(KnowledgeBaseTable) :
        /\ KnowledgeBaseTable[i].title = entry.title
        /\ KnowledgeBaseTable[i].category = entry.category
        /\ KnowledgeBaseTable[i].content.body = entry.content.body}

\* C11 (the claim as stated): once fetch_context has run, the knowledge_base
\* list of the bag has at most 3 entries; every entry comes from an active
\* row whose category contains the classified category as a substring; an
\* entry whose source content is longer than 500 characters holds its first
\* 500 characters and the ellipsis marker, a shorter one is unchanged.
C11_KnowledgeBaseEntries ==
    \A p \in Workers :
        turn[p].context.data.set =>
            LET kb == turn[p].context.data.knowledge_base
                category == LikePattern(turn[p].context.query_analysis.category)
            IN  /\ Len(kb) <= KbLimit
                /\ \A i \in 1..Len(kb) :
                      \E r \in SourcesOf(kb[i]) :
                          LET row == KnowledgeBaseTable[r]
                          IN  /\ row.is_active
                              /\ Contains(category, row.category)
                              /\ row.content.len > KbContentMax =>
                                    /\ kb[i].content.len = KbContentMax + 3
                                    /\ kb[i].content.ellipsis
                              /\ row.content.len <= KbContentMax =>
                                    /\ kb[i].content.len = row.content.len
                                    /\ ~kb[i].content.ellipsis

\* The owner of the session a message row belongs to.
OwnersOf(row) ==
    {chat_sessions[j].user_id : j \in {k \in 1..Len(chat_sessions) :
                                          chat_sessions[k].id = row.session_id}}

\* C12 (the claim as stated): a session holds the turns of one user only.
\* Every committed message row was written by a turn whose user_id is the
\* user_id of the row's session; stated for the rows of the invocation each
\* worker ran last, which every writing turn is at the moment it commits.
C12_SessionHoldsOneUser ==
    \A p \in Workers :
        \A i \in 1..Len(chat_messages) :
            chat_messages[i].turn = turn[p].tid =>
                OwnersOf(chat_messages[i]) = {turn[p].user_id}

\* The store: both tables and the id sequence of chat_sessions.
Store == <<chat_sessions, chat_messages, session_seq>>

\* A turn whose model call failed: it has returned without save_conversation
\* and no row of the store, committed or pending, is its own.
FailedTurnLeftNothing(p) ==
    /\ turn[p].pc = "returned"
    /\ turn[p].path = SubSeq(Nodes, 1, 3)
    /\ turn[p].saved = "no"
    /\ turn[p].tx = EmptyTx
    /\ MessagesBy(turn[p].tid) = << >>
    /\ SessionsBy(turn[p].tid) = << >>
    /\ ~turn[p].result.success

\* C13: persistence happens only after a successful response-generation
\* call.  A turn whose model call failed never runs save_conversation and
\* has no session and no message in the store; and every step a turn takes
\* while its generation has not succeeded (up to and including the failing
\* call) leaves the sessions, the messages and the id sequence as they were.
C13_NoPersistenceAfterFailedGeneration ==
    /\ [](\A p \in Workers : turn[p].gen = "failed" => FailedTurnLeftNothing(p))
    /\ [][\A p \in Workers :
             (turn'[p] # turn[p] /\ turn'[p].gen # "ok") => Store' = Store]_vars

\* C13 witness: after a turn that committed session 's1', a second turn for
\* a known user and that session failed in the model call; the store holds
\* the first turn's session and two messages only.
C13_Witness ==
    /\ turn[1].gen = "failed"
    /\ turn[1].pc = "returned"
    /\ turn[1].tid = 2
    /\ turn[1].user_id # 0
    /\ turn[1].session_id = "s1"
    /\ Len(SessionsWith("s1")) = 1
    /\ Len(chat_messages) = 2
    /\ MessagesBy(1) = chat_messages

====
